---------------------------- MODULE Spec2Model ----------------------------
(***************************************************************************)
(* Fair-News backend: the ModelManager singleton (backend/model.py) and    *)
(* the three HTTP handlers of backend/main.py that use it.                 *)
(*                                                                         *)
(* The handlers are plain `def` endpoints, so the server runs each request *)
(* on a worker thread.  A request is modelled as a thread whose position   *)
(* (pc) advances one shared-state access or one external call at a time.   *)
(* Spec runs the requests one after the other (a single client);           *)
(* SpecConc interleaves them.                                              *)
(*                                                                         *)
(* Python None is the string "None" for names and kinds and 0 for handles. *)
(* A bias score is kept in tenths: 0.5 is 5, 50.0 is 500, 72.0 is 720.     *)
(***************************************************************************)
EXTENDS Integers, Sequences, FiniteSets, TLC

\* Number of worker threads serving requests.
NumThreads == 2

Threads == 1..NumThreads

None == "None"

\* class ModelBackend(Enum)
OLLAMA == "ollama"

TRANSFORMERS == "transformers"

ModelBackend == {OLLAMA, TRANSFORMERS}

\* Keys of agent_prompts.
agent_prompts == {"liberal", "conservative", "neutral"}

\* The list the loop of judge() walks, in its order.
JudgeAgents == <<"liberal", "conservative", "neutral">>

\* Default model names written in the code.
DefaultOllamaModel == "llama3.2"

DefaultTransformersModel == "rinna/japanese-gpt-neox-3.6b-instruction-sft"

\* Model names a client may put in a request, and those the local server
\* may have installed.
OllamaModelNames == {"llama3.2", "phi4"}

ModelArgs == {None} \cup OllamaModelNames

\* Repository names AutoTokenizer.from_pretrained can resolve; any other
\* name makes the load raise at its first step.
HFLoadable == {DefaultTransformersModel}

\* Values of the `backend` field of a request: absent, empty, the two
\* enum values and a value outside the enum.
JudgeBackendArgs == {None, "", OLLAMA, TRANSFORMERS, "bogus"}

SwitchBackendArgs == {"", OLLAMA, TRANSFORMERS, "bogus"}

\* Personas a direct caller of generate_response may pass.
GenerateAgents == agent_prompts \cup {"centrist"}

-----------------------------------------------------------------------------
(* Score extraction: re.search(r'\b(\d{1,2}|100)\b', score_text), then     *)
(* float() of the match, else 50.0.  A text is a sequence of characters.   *)

Digits == {"0", "1", "2", "3", "4", "5", "6", "7", "8", "9"}

\* Characters \w matches besides the digits: letters of any script
\* (the pattern is a str pattern, so \w is Unicode-aware) and "_".
\* A Japanese character is written by its code point: U+70B9 U+3067 U+3059
\* spell "ten desu" ("points"), U+78BA U+5B9F "kakujitsu" ("certain").
Letters == {"n", "o", "_", "U+70B9", "U+3067", "U+3059", "U+78BA", "U+5B9F"}

IsWord(c) == c \in Digits \cup Letters

DigitVal(c) ==
    CASE c = "0" -> 0 [] c = "1" -> 1 [] c = "2" -> 2 [] c = "3" -> 3
      [] c = "4" -> 4 [] c = "5" -> 5 [] c = "6" -> 6 [] c = "7" -> 7
      [] c = "8" -> 8 [] c = "9" -> 9

\* Whether position i of s (1-based) holds a word character; a position
\* outside the text does not.
WordAt(s, i) == i >= 1 /\ i <= Len(s) /\ IsWord(s[i])

DigitAt(s, i) == i >= 1 /\ i <= Len(s) /\ s[i] \in Digits

\* \b between the characters i and i+1.
Boundary(s, i) == WordAt(s, i) # WordAt(s, i + 1)

\* A pattern that takes the whole run of digits, \b\d+.
MatchLenAtRun(s, i) ==
    IF ~Boundary(s, i - 1) \/ ~DigitAt(s, i) THEN 0
    ELSE LET j == CHOOSE k \in i..Len(s) :
                      /\ \A m \in i..k : DigitAt(s, m)
                      /\ ~DigitAt(s, k + 1)
         IN  j - i + 1

\* Length of the match of (\d{1,2}|100)\b starting at character i, after a
\* \b in front of it; 0 when there is none.  The alternatives are tried in
\* the regex's order: two digits, one digit, then the literal 100.
MatchLenAt(s, i) ==
    IF ~Boundary(s, i - 1) THEN 0
    ELSE IF DigitAt(s, i) /\ DigitAt(s, i + 1) /\ Boundary(s, i + 1) THEN 2
    ELSE IF DigitAt(s, i) /\ Boundary(s, i) THEN 1
    ELSE IF /\ i + 2 <= Len(s)
            /\ s[i] = "1" /\ s[i + 1] = "0" /\ s[i + 2] = "0"
            /\ Boundary(s, i + 2) THEN 3
    ELSE 0

RECURSIVE DecimalValue(_)
DecimalValue(ds) ==
    IF ds = <<>> THEN 0
    ELSE 10 * DecimalValue(SubSeq(ds, 1, Len(ds) - 1)) + DigitVal(ds[Len(ds)])

RECURSIVE Strip(_)
Strip(s) ==
    IF s = <<>> THEN s
    ELSE IF Head(s) = " " THEN Strip(Tail(s))
    ELSE IF s[Len(s)] = " " THEN Strip(SubSeq(s, 1, Len(s) - 1))
    ELSE s

\* Score, in tenths, that the fallback of the extraction gives (50.0).
FallbackScore == 500

\* Score, in tenths, of the error and default results (0.5).
ErrorScore == 5

extractScore(text) ==
    LET s == Strip(text)
        starts == {i \in 1..Len(s) : MatchLenAt(s, i) > 0}
    IN  IF starts = {} THEN FallbackScore
        ELSE LET i == CHOOSE k \in starts : \A j \in starts : k <= j
             IN  10 * DecimalValue(SubSeq(s, i, i + MatchLenAt(s, i) - 1))

\* Texts the score call may answer with: every text of up to MaxTextLen
\* characters over ScoreChars, and some longer ones.  U+70B9 U+3067 U+3059
\* after 72 is "72 points"; U+78BA U+5B9F after 100% is "100% certain".
MaxTextLen == 3

ScoreChars == {"0", "1", "7", "U+70B9", "%", " "}

ShortTexts == UNION {[1..n -> ScoreChars] : n \in 0..MaxTextLen}

LongTexts ==
    { <<"7", "2", "U+70B9", "U+3067", "U+3059">>,
      <<"1", "0", "0", "%", "U+78BA", "U+5B9F">>,
      <<"1", "0", "0", "0">>,
      <<"n", "o", " ", "7", "2", " ", "1", "0">> }

JudgeScoreTexts == {<<"7", "2">>, <<"n", "o">>}

ScoreTexts == ShortTexts \cup LongTexts \cup JudgeScoreTexts


-----------------------------------------------------------------------------
(* State.                                                                  *)

VARIABLES
    OLLAMA_AVAILABLE,        \* import ollama succeeded
    TRANSFORMERS_AVAILABLE,  \* import transformers, torch succeeded
    installed,               \* models the local server has installed
    backend,                 \* model_manager.backend
    tokenizer,               \* model_manager.tokenizer (0: None, else the load that made it)
    model,                   \* model_manager.model
    pipeline,                \* model_manager.pipeline
    lastSwitch,              \* history: the switch_backend call that returned last
    serial,                  \* the client sends one request at a time
    th,                      \* the request each worker thread is serving
    article                  \* the generate_article call of the article generator

vars == <<OLLAMA_AVAILABLE, TRANSFORMERS_AVAILABLE, installed, backend,
          tokenizer, model, pipeline, lastSwitch, serial, th, article>>

manager == <<backend, tokenizer, model, pipeline>>

\* What no step of the backend changes: the imports, the local server's
\* models, the scenario, and the article generator, a program of its own.
environment ==
    <<OLLAMA_AVAILABLE, TRANSFORMERS_AVAILABLE, installed, serial, article>>

\* What no step of the article generator changes.
server == <<OLLAMA_AVAILABLE, TRANSFORMERS_AVAILABLE, installed, backend,
            tokenizer, model, pipeline, lastSwitch, serial, th>>

\* A text by its length: whitespace in front, the part from the first to
\* the last character that is not whitespace, whitespace behind.
NoContent == [lead |-> 0, core |-> 0, trail |-> 0]

\* No generate_article call was made.
NoArticleCall ==
    [pc |-> "idle", max_retries |-> 0, attempt |-> 0, calls |-> 0,
     outcomes |-> <<>>, slept |-> 0, ret |-> <<FALSE, "", None>>]

\* self.pipeline = None
NoPipeline == [by |-> 0, model |-> 0, tokenizer |-> 0]

NoSwitch == [kind |-> None, name |-> None, ret |-> "idle", id |-> 0,
             ok |-> FALSE, before |-> None, listed |-> {}]

\* What is remembered of a returned switch_backend call; of a successful
\* switch to OLLAMA also the model name it checked.
NoLastSwitch == [kind |-> None, ok |-> FALSE, before |-> None, name |-> None]

NoDict == [summary |-> <<>>, bias_score |-> 0]

\* What a generation call was observed to do (history, not program state):
\* the backend path that served it, the model name it passed to the local
\* server, whether a backend call raised, the text of the score response
\* of a direct call (and whether it could be read), the prompt it sent to
\* the backend, and whether the
\* pipeline it ran was built from the tokenizer and model the manager held
\* at that moment.
NoObs == [served |-> None, model |-> None, raised |-> FALSE,
          text |-> <<>>, readable |-> TRUE, full_prompt |-> <<>>,
          coherent |-> TRUE]

NoResponse == [code |-> 0, detail |-> "", backend |-> None, model_name |-> None]

\* The fields of the status answer that come from the manager, and
\* (history) whether the server answered the listing behind each of them.
NoStatus == [available_backends |-> {}, available_ollama_models |-> {},
             ollama_available |-> FALSE, answered |-> <<TRUE, TRUE>>]

IdleThread ==
    [op |-> "idle", pc |-> "idle", backendArg |-> None, modelArg |-> None,
     agent |-> None, prompt |-> "article A", i |-> 1, sw |-> NoSwitch,
     ret |-> NoDict, obs |-> NoObs, results |-> <<>>, robs |-> <<>>,
     calls |-> 0, attempts |-> <<>>, backend0 |-> None,
     prev |-> NoLastSwitch, ovr |-> "none",
     status |-> NoStatus,
     resp |-> NoResponse]

\* ModelManager.__init__ and the module's imports.  The server's models
\* are out of reach of a process that could not import the client.
InitManager ==
    /\ OLLAMA_AVAILABLE \in BOOLEAN
    /\ TRANSFORMERS_AVAILABLE \in BOOLEAN
    /\ installed \in SUBSET OllamaModelNames
    /\ ~OLLAMA_AVAILABLE => installed = {}
    /\ backend = None
    /\ tokenizer = 0
    /\ model = 0
    /\ pipeline = NoPipeline
    /\ lastSwitch = NoLastSwitch
    /\ th = [t \in Threads |-> IdleThread]

Init == InitManager /\ serial = TRUE /\ article = NoArticleCall

\* The concurrent scenario is a healthy installation under load: both
\* imports succeeded, the local server has the default model and answers,
\* clients name no model.  Loads of the in-process model may still fail.
InitConc ==
    /\ InitManager
    /\ serial = FALSE
    /\ OLLAMA_AVAILABLE
    /\ TRANSFORMERS_AVAILABLE
    /\ installed = {DefaultOllamaModel}
    /\ article = NoArticleCall

\* What the clients send and what the local server does, per scenario.
JudgeRequests ==
    IF serial THEN JudgeBackendArgs \X ModelArgs
    ELSE {None, OLLAMA, TRANSFORMERS} \X {None}

SwitchRequests ==
    IF serial THEN SwitchBackendArgs \X ModelArgs
    ELSE ModelBackend \X {None}

\* Article texts a request may carry.
Articles == {"article A", "article B"}

GenerateCalls ==
    IF serial THEN GenerateAgents \X ModelArgs \X Articles
    ELSE {"neutral"} \X {None} \X {"article A"}

\* Whether a call to the local server or the pipeline may raise.
CallOutcomes == IF serial THEN BOOLEAN ELSE {TRUE}

ScoreAnswers(r) ==
    IF ~serial THEN {<<"7", "2">>}
    ELSE IF r.op = "generate" THEN ScoreTexts
    ELSE JudgeScoreTexts

\* A worker thread can take a request: it is the first free one, and a
\* client that sends one request at a time has none in progress.
CanStart(t) ==
    /\ th[t].pc = "idle"
    /\ \A u \in 1..(t - 1) : th[u].pc # "idle"
    /\ serial => t = 1

\* History fields (the backend before a request or a switch, the default
\* attempts made, the last switch) are kept in the one-client scenario,
\* where "before" and "after" a request are well defined.
Hist(x, none) == IF serial THEN x ELSE none

Set(t, r) == th' = [th EXCEPT ![t] = r]

\* Handles are numbered by the load that made them; only whether two
\* handles come from the same load matters.  After each step of a switch
\* the numbers in use are renamed 1, 2, ... in the order in which the
\* manager's fields and then the loads in progress mention them, so that
\* one situation has one numbering.
IdSeq(tok, mod, pipe, ths) ==
    <<pipe.by, pipe.model, pipe.tokenizer, mod, tok>>
        \o [u \in Threads |-> ths[u].sw.id]

FirstAt(S, x) == CHOOSE i \in DOMAIN S : S[i] = x /\ \A j \in 1..(i - 1) : S[j] # x

Rank(S, x) ==
    IF x = 0 THEN 0
    ELSE Cardinality({FirstAt(S, S[i]) : i \in {j \in DOMAIN S : S[j] # 0}}
                        \cap 1..FirstAt(S, x))

\* A number no field and no load in progress refers to.
FreshId ==
    LET S == IdSeq(tokenizer, model, pipeline, th)
    IN  1 + Cardinality({S[i] : i \in DOMAIN S})

\* The manager's handle fields become tok, mod, pipe and thread t goes on
\* as r.
Commit(t, r, tok, mod, pipe) ==
    LET ths == [th EXCEPT ![t] = r]
        S == IdSeq(tok, mod, pipe, ths)
    IN  /\ tokenizer' = Rank(S, tok)
        /\ model' = Rank(S, mod)
        /\ pipeline' = [by |-> Rank(S, pipe.by), model |-> Rank(S, pipe.model),
                        tokenizer |-> Rank(S, pipe.tokenizer)]
        /\ th' = [u \in Threads |->
                   [ths[u] EXCEPT !.sw = [@ EXCEPT !.id = Rank(S, @)]]]

\* switch_backend(..., model_name): model_name or "llama3.2"
ResolveOllama(name) == IF name = None THEN DefaultOllamaModel ELSE name

\* switch_backend(..., model_name): model_name or "rinna/..."
ResolveTransformers(name) ==
    IF name = None THEN DefaultTransformersModel ELSE name

-----------------------------------------------------------------------------
(* BackendCatalog: the queries of the local model server.                  *)

\* get_ollama_models(): the installed names, or [] when the import failed
\* or ollama.list() raises (listOk is what the server does on this call).
\* A listing that answers with the suggested model when the server did not.
get_ollama_models_suggested(listOk) ==
    IF ~OLLAMA_AVAILABLE THEN {}
    ELSE IF listOk THEN installed ELSE {DefaultOllamaModel}

get_ollama_models(listOk) ==
    IF ~OLLAMA_AVAILABLE THEN {}
    ELSE IF listOk THEN installed ELSE {}

\* A check that asks only whether the client is there.
check_ollama_model_any(name, listOk) == OLLAMA_AVAILABLE

check_ollama_model(name, listOk) ==
    IF ~OLLAMA_AVAILABLE THEN FALSE
    ELSE name \in get_ollama_models(listOk)

get_available_backends ==
    (IF OLLAMA_AVAILABLE THEN {OLLAMA} ELSE {})
        \cup (IF TRANSFORMERS_AVAILABLE THEN {TRANSFORMERS} ELSE {})

\* History: the default-selection attempts of a request, each with the
\* backend and name passed to switch_backend and how it ended.
Attempt(as, kind, name) ==
    Hist(Append(as, [kind |-> kind, name |-> name, result |-> "pending"]), <<>>)

Ended(as, ok) ==
    IF as = <<>> THEN as
    ELSE [as EXCEPT ![Len(as)].result = IF ok THEN "ok" ELSE "failed"]

\* A call of ModelManager.switch_backend: th[t].sw holds its arguments and
\* the label it comes back to.
CallSwitch(r, kind, name, ret) ==
    [r EXCEPT !.pc = "sw_entry",
              !.sw = [kind |-> kind, name |-> name, ret |-> ret, id |-> 0,
                      ok |-> FALSE, before |-> None, listed |-> {}]]

-----------------------------------------------------------------------------
(* Generation: the module's generate_response, ModelManager's              *)
(* generate_response and the two backend paths.                            *)

\* The dicts the generation paths return.
\* A result that marks the summary when the score is the fallback.
NarrativeDictMarked(agent, score) ==
    [summary |-> IF score = FallbackScore THEN <<"score not parsable", agent>>
                 ELSE <<"response", agent>>,
     bias_score |-> score]

NarrativeDict(agent, score) ==
    [summary |-> <<"response", agent>>, bias_score |-> score]

OllamaErrorDict(agent) ==
    [summary |-> <<"Ollama API error", agent>>, bias_score |-> ErrorScore]

TransformersErrorDict(agent) ==
    [summary |-> <<"Transformers API error", agent>>, bias_score |-> ErrorScore]

NotLoadedDict ==
    [summary |-> <<"Transformers model not loaded">>, bias_score |-> ErrorScore]

NotConfiguredDict ==
    [summary |-> <<"backend not set">>, bias_score |-> ErrorScore]

NoBackendDict ==
    [summary |-> <<"no backend available">>, bias_score |-> ErrorScore]

\* A summary that describes an error rather than carrying a model's text.
IsErrorSummary(summary) == summary[1] # "response"

\* A loop that leaves a failed persona out of the results.
CollectDropError(r, d, o) ==
    [r EXCEPT !.pc = "j_loop", !.i = @ + 1,
              !.results = IF IsErrorSummary(d.summary) THEN r.results
                          ELSE (r.agent :> d) @@ r.results,
              !.robs = (r.agent :> o) @@ r.robs]

\* judge, lines 82-86: results[agent] = {...} with the dict d that
\* generate_response returned, and on to the next persona.
Collect(r, d, o) ==
    [r EXCEPT !.pc = "j_loop", !.i = @ + 1,
              !.results = (r.agent :> d) @@ r.results,
              !.robs = (r.agent :> o) @@ r.robs]

\* generate_response returns dict d to its caller, judge or a direct
\* caller; what the call used is recorded beside it.
GenReturn(r, d, o) ==
    IF r.op = "judge" THEN Collect(r, d, o)
    ELSE [r EXCEPT !.pc = "done", !.ret = d, !.obs = o,
                   !.resp = [NoResponse EXCEPT !.detail = "returned"]]

\* An exception leaves generate_response: a direct caller sees it, and in
\* a handler the server answers 500.
GenRaise(r, what) ==
    [r EXCEPT !.pc = "done",
              !.resp = [NoResponse EXCEPT
                          !.code = IF r.op = "generate" THEN 0 ELSE 500,
                          !.detail = what]]

\* The prompt as a sequence of its parts.  The instruction text of a
\* persona, agent_prompts[agent], is written by the persona's name.
SystemFraming == "system framing"

BlankLine == "blank line"

\* Lines 171-172: the framing sentence and the instruction in one f-string
\* with nothing between them, a blank line, the article.
full_prompt_ollama(agent, prompt) ==
    <<SystemFraming, agent, BlankLine, prompt>>

\* Line 220: the instruction, a blank line, the article behind a label, a
\* blank line, and a closing label.
full_prompt_transformers(agent, prompt) ==
    <<agent, BlankLine, "article label", prompt, BlankLine, "analysis label">>

\* ModelManager.generate_response (lines 258-266) on the value b read from
\* self.backend, up to the first backend call.  Line 171 looks the persona
\* up before the try of the OLLAMA path.
Dispatch(r, b) ==
    IF b = OLLAMA
    THEN IF r.agent \notin agent_prompts
         THEN GenRaise(r, "KeyError")
         ELSE [r EXCEPT !.pc = "go_narr",
                        !.obs = [NoObs EXCEPT !.served = OLLAMA,
                                   !.model = ResolveOllama(r.modelArg),
                                   !.full_prompt =
                                       full_prompt_ollama(r.agent, r.prompt)]]
    ELSE IF b = TRANSFORMERS
    THEN [r EXCEPT !.pc = "gt_call",
                   !.obs = [NoObs EXCEPT !.served = TRANSFORMERS]]
    ELSE GenReturn(r, NotConfiguredDict, NoObs)

\* A first attempt that always names the default model.
GenFirstAttemptNameDefault(r) == DefaultOllamaModel

\* The name generate_response (module level) passes to its first
\* switch_backend attempt: its own model_name argument (line 284).
GenFirstAttemptName(r) == r.modelArg

\* generate_response (module level), lines 282-284 and 294, on the value b
\* read from model_manager.backend: with no backend, the first default
\* attempt; otherwise the dispatch.
GenEnter(r, b) ==
    IF b = None
    THEN [CallSwitch(r, OLLAMA, GenFirstAttemptName(r), "g_ret1")
            EXCEPT !.attempts = Attempt(<<>>, OLLAMA, GenFirstAttemptName(r))]
    ELSE Dispatch(r, b)

GenEntry(t) ==
    /\ th[t].pc = "g_entry"
    /\ Set(t, GenEnter(th[t], backend))
    /\ UNCHANGED <<manager, environment, lastSwitch>>

\* Line 294 after a default selection.
GenDispatch(t) ==
    /\ th[t].pc = "g_dispatch"
    /\ Set(t, Dispatch(th[t], backend))
    /\ UNCHANGED <<manager, environment, lastSwitch>>

\* ollama.generate(model=..., prompt=...) is called with no timeout (lines
\* 177 and 183-186): a call the server never answers never returns, and
\* the thread stays in it.
Unanswered(r) == [r EXCEPT !.pc = "go_wait"]

\* Lines 174-180 and 204-210: the narrative call of the OLLAMA path.
OllamaNarrative(t) ==
    LET r == [th[t] EXCEPT !.calls = @ + 1] IN
    /\ th[t].pc = "go_narr"
    /\ \E answered \in BOOLEAN, ok \in CallOutcomes :
         IF ~answered
         THEN ok /\ Set(t, Unanswered(r))
         ELSE IF ok
         THEN Set(t, [r EXCEPT !.pc = "go_score"])
         ELSE Set(t, GenReturn(r, OllamaErrorDict(r.agent),
                               [r.obs EXCEPT !.raised = TRUE]))
    /\ UNCHANGED <<manager, environment, lastSwitch>>

\* Lines 183-202 and 204-210: the score call.  The response text may be
\* unreadable (the inner bare except then gives 50).
OllamaScore(t) ==
    LET r == [th[t] EXCEPT !.calls = @ + 1] IN
    /\ th[t].pc = "go_score"
    /\ \E answered \in BOOLEAN, ok \in CallOutcomes,
          readable \in CallOutcomes, text \in ScoreAnswers(r) :
         IF ~answered
         THEN /\ ok /\ readable /\ text = <<"7", "2">>
              /\ Set(t, Unanswered(r))
         ELSE IF ~ok
         THEN Set(t, GenReturn(r, OllamaErrorDict(r.agent),
                               [r.obs EXCEPT !.raised = TRUE]))
         ELSE /\ ~readable => text = <<"7", "2">>
              /\ Set(t, GenReturn(r,
                   NarrativeDict(r.agent, IF readable THEN extractScore(text)
                                          ELSE FallbackScore),
                   IF r.op = "generate"
                   THEN [r.obs EXCEPT !.readable = readable,
                                      !.text = IF readable THEN text ELSE <<>>]
                   ELSE r.obs))
    /\ UNCHANGED <<manager, environment, lastSwitch>>

\* generate_response_transformers (lines 212-254): the test of
\* self.pipeline, the persona lookup, and the one pipeline call, which
\* reads self.pipeline and self.tokenizer.
TransformersCall(t) ==
    LET r == th[t]
        o == [r.obs EXCEPT !.coherent = /\ pipeline.tokenizer = tokenizer
                                        /\ pipeline.model = model,
                           !.full_prompt =
                               full_prompt_transformers(r.agent, r.prompt)]
    IN
    /\ r.pc = "gt_call"
    /\ IF pipeline = NoPipeline
       THEN Set(t, GenReturn(r, NotLoadedDict, r.obs))
       ELSE IF r.agent \notin agent_prompts
       THEN Set(t, GenRaise(r, "KeyError"))
       ELSE \E ok \in CallOutcomes :
              IF ok
              THEN Set(t, GenReturn([r EXCEPT !.calls = @ + 1],
                                    NarrativeDict(r.agent, ErrorScore), o))
              ELSE Set(t, GenReturn([r EXCEPT !.calls = @ + 1],
                                    TransformersErrorDict(r.agent),
                                    [o EXCEPT !.raised = TRUE]))
    /\ UNCHANGED <<manager, environment, lastSwitch>>

-----------------------------------------------------------------------------
(* POST /api/v1/judge                                                      *)

Respond(r, code, detail) ==
    [r EXCEPT !.pc = "done",
              !.resp = [NoResponse EXCEPT !.code = code, !.detail = detail]]

\* A judge request arrives with its backend and model_name fields.
StartJudge(t, b, m) ==
    /\ CanStart(t)
    /\ Set(t, [IdleThread EXCEPT !.op = "judge", !.pc = "j_override",
                 !.backendArg = b, !.modelArg = m, !.backend0 = Hist(backend, None),
                 !.prev = lastSwitch])
    /\ UNCHANGED <<manager, environment, lastSwitch>>

\* Lines 63-70: `if request.backend:` is false for None and for "";
\* ModelBackend(value) raises ValueError outside the enum.
JudgeOverride(t) ==
    LET r == th[t] IN
    /\ r.pc = "j_override"
    /\ IF r.backendArg \in {None, ""}
       THEN Set(t, [r EXCEPT !.pc = "j_auto"])
       ELSE IF r.backendArg \notin ModelBackend
       THEN Set(t, [Respond(r, 400, "invalid backend")
                      EXCEPT !.ovr = "invalid"])
       ELSE Set(t, CallSwitch(r, r.backendArg, r.modelArg, "j_override_ret"))
    /\ UNCHANGED <<manager, environment, lastSwitch>>

\* A judge that does not look at what the switch returned.
AfterOverrideIgnored(r, ok) ==
    [r EXCEPT !.pc = "j_auto", !.ovr = IF ok THEN "ok" ELSE "failed"]

\* What judge does once the switch to the requested backend returned ok:
\* goes on, or raises the 400 (an HTTPException, which the
\* `except ValueError` around it does not catch).
AfterOverride(r, ok) ==
    IF ok THEN [r EXCEPT !.pc = "j_auto", !.ovr = "ok", !.sw = NoSwitch]
    ELSE [Respond(r, 400, "switch failed") EXCEPT !.ovr = "failed"]

\* Lines 73-74: with no backend set, try OLLAMA with "llama3.2".
JudgeAuto(t) ==
    LET r == th[t] IN
    /\ r.pc = "j_auto"
    /\ IF backend = None
       THEN Set(t, [CallSwitch(r, OLLAMA, DefaultOllamaModel, "j_auto_ret1")
                      EXCEPT !.attempts =
                               Attempt(<<>>, OLLAMA, DefaultOllamaModel)])
       ELSE Set(t, [r EXCEPT !.pc = "j_loop"])
    /\ UNCHANGED <<manager, environment, lastSwitch>>

\* Number of personas the loop of judge handles.
JudgeLoopLen == Len(JudgeAgents)

\* Lines 80-81: the next persona's generate_response call, up to its read
\* of model_manager.backend.
JudgeCall(t) ==
    LET r == th[t] IN
    /\ r.pc = "j_loop"
    /\ r.i <= JudgeLoopLen
    /\ Set(t, GenEnter([r EXCEPT !.agent = JudgeAgents[r.i]], backend))
    /\ UNCHANGED <<manager, environment, lastSwitch>>

\* A judge that puts back the backend that was set when the request came.
JudgeReturnRestoring(t) ==
    LET r == th[t] IN
    /\ r.pc = "j_loop"
    /\ r.i > JudgeLoopLen
    /\ Set(t, [r EXCEPT !.pc = "done",
                 !.resp = [code |-> 200, detail |-> "",
                           backend |-> IF backend = None THEN "unknown"
                                       ELSE backend,
                           model_name |-> IF r.modelArg = None THEN "default"
                                          ELSE r.modelArg]])
    /\ backend' = r.backend0
    /\ UNCHANGED <<tokenizer, model, pipeline, environment, lastSwitch>>

\* Lines 88-95: the response, with the backend read now.
JudgeReturn(t) ==
    LET r == th[t] IN
    /\ r.pc = "j_loop"
    /\ r.i > JudgeLoopLen
    /\ Set(t, [r EXCEPT !.pc = "done",
                 !.resp = [code |-> 200, detail |-> "",
                           backend |-> IF backend = None THEN "unknown"
                                       ELSE backend,
                           model_name |-> IF r.modelArg = None THEN "default"
                                          ELSE r.modelArg]])
    /\ UNCHANGED <<manager, environment, lastSwitch>>

-----------------------------------------------------------------------------
(* ModelManager.switch_backend and load_transformers_model.                *)

\* What the caller of switch_backend does with the value ok it returned,
\* up to its next access to the manager: judge lines 66-68, 74-77, the
\* module's generate_response lines 284-292; the switch handler reads
\* model_manager.backend next (label s_ret).
AfterSwitchOf(r, ok) ==
    CASE r.sw.ret = "j_override_ret" -> AfterOverride(r, ok)
      [] r.sw.ret = "j_auto_ret1" ->
            IF ok THEN [r EXCEPT !.pc = "j_loop", !.sw = NoSwitch]
            ELSE [CallSwitch(r, TRANSFORMERS, None, "j_auto_ret2")
                    EXCEPT !.attempts = Attempt(r.attempts, TRANSFORMERS, None)]
      [] r.sw.ret = "j_auto_ret2" ->
            IF ok THEN [r EXCEPT !.pc = "j_loop", !.sw = NoSwitch]
            ELSE Respond(r, 500, "no backend available")
      [] r.sw.ret = "g_ret1" ->
            IF ok THEN [r EXCEPT !.pc = "g_dispatch", !.sw = NoSwitch]
            ELSE [CallSwitch(r, TRANSFORMERS, None, "g_ret2")
                    EXCEPT !.attempts = Attempt(r.attempts, TRANSFORMERS, None)]
      [] r.sw.ret = "g_ret2" ->
            IF ok THEN [r EXCEPT !.pc = "g_dispatch", !.sw = NoSwitch]
            ELSE GenReturn(r, NoBackendDict, NoObs)
      [] OTHER -> [r EXCEPT !.pc = "s_ret"]

AfterSwitch(r, ok) ==
    IF r.sw.ret \in {"j_override_ret", "s_ret"} THEN AfterSwitchOf(r, ok)
    ELSE AfterSwitchOf([r EXCEPT !.attempts = Ended(r.attempts, ok)], ok)

\* A switch that clears self.backend when it fails.
BackendAfterReset(kind, ok) == IF ok THEN kind ELSE None

\* A switch that assigns self.backend before it knows the outcome.
BackendAfterEager(kind, ok) == kind

\* self.backend once switch_backend(kind, ...) is about to return ok: it is
\* assigned on the success paths only (lines 150 and 161).
BackendAfter(kind, ok) == IF ok THEN kind ELSE backend

\* switch_backend returns ok to its caller, the manager's handle fields
\* being tok, mod, pipe.
SwitchReturn(t, s, ok, tok, mod, pipe) ==
    /\ Commit(t, AfterSwitch([th[t] EXCEPT
                                !.sw = [s EXCEPT !.ok = ok, !.id = 0]], ok),
              tok, mod, pipe)
    /\ backend' = BackendAfter(s.kind, ok)
    /\ lastSwitch' = Hist([kind |-> s.kind, ok |-> ok, before |-> s.before,
                           name |-> IF s.kind = OLLAMA /\ ok
                                    THEN ResolveOllama(s.name) ELSE None],
                          NoLastSwitch)

\* Lines 130-157: the OLLAMA branch whole (availability, model check, the
\* write of self.backend), and the availability test of the TRANSFORMERS
\* branch, which then enters load_transformers_model.
SwitchEntry(t) ==
    LET s == [th[t].sw EXCEPT !.before = Hist(backend, None)] IN
    /\ th[t].pc = "sw_entry"
    /\ IF s.kind = OLLAMA
       THEN \E listOk \in CallOutcomes :
              LET found == /\ OLLAMA_AVAILABLE
                           /\ check_ollama_model(ResolveOllama(s.name), listOk)
              IN  SwitchReturn(t, [s EXCEPT !.listed =
                                         Hist(get_ollama_models(listOk), {})],
                               found, tokenizer, model, pipeline)
       ELSE IF ~TRANSFORMERS_AVAILABLE
       THEN SwitchReturn(t, s, FALSE, tokenizer, model, pipeline)
       ELSE /\ Commit(t, [th[t] EXCEPT !.pc = "sw_tok",
                                       !.sw = [s EXCEPT !.id = FreshId]],
                      tokenizer, model, pipeline)
            /\ UNCHANGED <<backend, lastSwitch>>
    /\ UNCHANGED environment

\* A load that clears the three fields when the tokenizer cannot be had.
LoadTokenizerClearing(t) ==
    LET s == th[t].sw IN
    /\ th[t].pc = "sw_tok"
    /\ \E ok \in BOOLEAN :
         /\ ok => ResolveTransformers(s.name) \in HFLoadable
         /\ IF ok
            THEN /\ Commit(t, [th[t] EXCEPT !.pc = "sw_model"],
                           s.id, model, pipeline)
                 /\ UNCHANGED <<backend, lastSwitch>>
            ELSE SwitchReturn(t, s, FALSE, 0, 0, NoPipeline)
    /\ UNCHANGED environment

\* Line 106: self.tokenizer = AutoTokenizer.from_pretrained(model_name)
LoadTokenizer(t) ==
    LET s == th[t].sw IN
    /\ th[t].pc = "sw_tok"
    /\ \E ok \in BOOLEAN :
         /\ ok => ResolveTransformers(s.name) \in HFLoadable
         /\ IF ok
            THEN /\ Commit(t, [th[t] EXCEPT !.pc = "sw_model"],
                           s.id, model, pipeline)
                 /\ UNCHANGED <<backend, lastSwitch>>
            ELSE SwitchReturn(t, s, FALSE, tokenizer, model, pipeline)
    /\ UNCHANGED environment

\* Lines 107-111: self.model = AutoModelForCausalLM.from_pretrained(...)
LoadModel(t) ==
    LET s == th[t].sw IN
    /\ th[t].pc = "sw_model"
    /\ \E ok \in BOOLEAN :
         IF ok
         THEN /\ Commit(t, [th[t] EXCEPT !.pc = "sw_pipe"],
                        tokenizer, s.id, pipeline)
              /\ UNCHANGED <<backend, lastSwitch>>
         ELSE SwitchReturn(t, s, FALSE, tokenizer, model, pipeline)
    /\ UNCHANGED environment

\* Lines 114-119: self.pipeline = pipeline(model=self.model,
\* tokenizer=self.tokenizer, ...)
LoadPipeline(t) ==
    LET s == th[t].sw IN
    /\ th[t].pc = "sw_pipe"
    /\ \E ok \in BOOLEAN :
         IF ok
         THEN /\ Commit(t, [th[t] EXCEPT !.pc = "sw_set"],
                        tokenizer, model,
                        [by |-> s.id, model |-> model, tokenizer |-> tokenizer])
              /\ UNCHANGED <<backend, lastSwitch>>
         ELSE SwitchReturn(t, s, FALSE, tokenizer, model, pipeline)
    /\ UNCHANGED environment

\* Lines 160-163: the load returned True; self.backend = TRANSFORMERS
SwitchSet(t) ==
    /\ th[t].pc = "sw_set"
    /\ SwitchReturn(t, th[t].sw, TRUE, tokenizer, model, pipeline)
    /\ UNCHANGED environment

-----------------------------------------------------------------------------
(* POST /api/v1/switch-backend, GET /api/v1/status, and a direct call of   *)
(* the module's generate_response.                                         *)

StartSwitch(t, b, m) ==
    /\ CanStart(t)
    /\ Set(t, [IdleThread EXCEPT !.op = "switch", !.pc = "s_entry",
                 !.backendArg = b, !.modelArg = m, !.backend0 = Hist(backend, None),
                 !.prev = lastSwitch])
    /\ UNCHANGED <<manager, environment, lastSwitch>>

\* Lines 38-41 and 53-54.
SwitchParse(t) ==
    LET r == th[t] IN
    /\ r.pc = "s_entry"
    /\ IF r.backendArg \notin ModelBackend
       THEN Set(t, Respond(r, 400, "invalid backend"))
       ELSE Set(t, CallSwitch(r, r.backendArg, r.modelArg, "s_ret"))
    /\ UNCHANGED <<manager, environment, lastSwitch>>

\* A handler whose except clause also catches the HTTPException of the
\* failed switch and answers it as an invalid backend.
SwitchRespondCaught(t) ==
    LET r == th[t] IN
    /\ r.pc = "s_ret"
    /\ IF r.sw.ok
       THEN Set(t, [r EXCEPT !.pc = "done",
                      !.resp = [code |-> 200, detail |-> "",
                                backend |-> backend,
                                model_name |-> r.modelArg]])
       ELSE Set(t, Respond(r, 400, "invalid backend"))
    /\ UNCHANGED <<manager, environment, lastSwitch>>

\* Lines 43-51.
SwitchRespond(t) ==
    LET r == th[t] IN
    /\ r.pc = "s_ret"
    /\ IF r.sw.ok
       THEN Set(t, [r EXCEPT !.pc = "done",
                      !.resp = [code |-> 200, detail |-> "",
                                backend |-> backend,
                                model_name |-> r.modelArg]])
       ELSE Set(t, Respond(r, 400, "switch failed"))
    /\ UNCHANGED <<manager, environment, lastSwitch>>

StartStatus(t) ==
    /\ CanStart(t)
    /\ Set(t, [IdleThread EXCEPT !.op = "status", !.pc = "st",
                 !.backend0 = Hist(backend, None),
                 !.prev = lastSwitch])
    /\ UNCHANGED <<manager, environment, lastSwitch>>

\* A status handler that selects the default backend when none is set.
StatusSelecting(t) ==
    LET r == th[t] IN
    /\ r.pc = "st"
    /\ \E listOk \in CallOutcomes, checkOk \in CallOutcomes :
         Set(t, [r EXCEPT !.pc = "done",
                   !.resp = [code |-> 200, detail |-> "",
                             backend |-> backend, model_name |-> None],
                   !.status =
                       [available_backends |-> get_available_backends,
                        available_ollama_models |-> get_ollama_models(listOk),
                        ollama_available |->
                            check_ollama_model(DefaultOllamaModel, checkOk),
                        answered |-> <<listOk, checkOk>>]])
    /\ backend' = IF backend = None /\ OLLAMA_AVAILABLE THEN OLLAMA
                  ELSE backend
    /\ UNCHANGED <<tokenizer, model, pipeline, environment, lastSwitch>>

\* Lines 23-32: current_backend is the value of self.backend, or null;
\* the list of models and the check of "llama3.2" (the default of the
\* module's check_ollama_model, line 275) each ask the server.
Status(t) ==
    LET r == th[t] IN
    /\ r.pc = "st"
    /\ \E listOk \in CallOutcomes, checkOk \in CallOutcomes :
         Set(t, [r EXCEPT !.pc = "done",
                   !.resp = [code |-> 200, detail |-> "",
                             backend |-> backend, model_name |-> None],
                   !.status =
                       [available_backends |-> get_available_backends,
                        available_ollama_models |-> get_ollama_models(listOk),
                        ollama_available |->
                            check_ollama_model(DefaultOllamaModel, checkOk),
                        answered |-> <<listOk, checkOk>>]])
    /\ UNCHANGED <<manager, environment, lastSwitch>>

\* generate_response(agent, prompt, model_name) called directly.
StartGenerate(t, a, m, p) ==
    /\ CanStart(t)
    /\ Set(t, [IdleThread EXCEPT !.op = "generate", !.pc = "g_entry",
                 !.agent = a, !.modelArg = m, !.prompt = p,
                 !.backend0 = Hist(backend, None),
                 !.prev = lastSwitch])
    /\ UNCHANGED <<manager, environment, lastSwitch>>

\* The response is sent (or the call has returned); the thread is free.
Finish(t) ==
    /\ th[t].pc = "done"
    /\ Set(t, IdleThread)
    /\ UNCHANGED <<manager, environment, lastSwitch>>

-----------------------------------------------------------------------------
(* Specifications.                                                         *)

Step(t) ==
    \/ \E q \in JudgeRequests : StartJudge(t, q[1], q[2])
    \/ JudgeOverride(t)
    \/ JudgeAuto(t)
    \/ JudgeCall(t)
    \/ JudgeReturn(t)
    \/ \E q \in SwitchRequests : StartSwitch(t, q[1], q[2])
    \/ SwitchParse(t)
    \/ SwitchRespond(t)
    \/ StartStatus(t)
    \/ Status(t)
    \/ \E q \in GenerateCalls : StartGenerate(t, q[1], q[2], q[3])
    \/ GenEntry(t)
    \/ GenDispatch(t)
    \/ OllamaNarrative(t)
    \/ OllamaScore(t)
    \/ TransformersCall(t)
    \/ SwitchEntry(t)
    \/ LoadTokenizer(t)
    \/ LoadModel(t)
    \/ LoadPipeline(t)
    \/ SwitchSet(t)
    \/ Finish(t)

Next == \E t \in Threads : Step(t)

\* One client, one request at a time.
Spec == Init /\ [][Next]_vars

\* Requests served concurrently by the worker threads.
SpecConc == InitConc /\ [][Next]_vars

\* One request at a time, every thread that can take a step of the program
\* eventually taking one.  A thread inside a backend call that is never
\* answered has no step to take.
SpecLive == Init /\ [][Next]_vars /\ \A t \in Threads : WF_vars(Step(t))

-----------------------------------------------------------------------------
(* ArticleGenerator.generate_article: up to max_retries calls of the chat  *)
(* completion API.                                                         *)

\* Largest max_retries a caller passes; the default is 3 (line 37).
MaxRetries == 3

\* Line 73: the least length an article must exceed.
MinContentLength == 100

len(c) == c.lead + c.core + c.trail

\* str.strip
strip(c) == [lead |-> 0, core |-> c.core, trail |-> 0]

\* Contents a response may carry: the empty text, whitespace only, texts
\* of 100 and of 101 characters, and texts of more than 100 characters of
\* which at most 100 are left without the whitespace around them.
Contents ==
    { NoContent,
      [lead |-> MinContentLength + 1, core |-> 0, trail |-> 0],
      [lead |-> 0, core |-> MinContentLength, trail |-> 0],
      [lead |-> 0, core |-> MinContentLength + 1, trail |-> 0],
      [lead |-> 1, core |-> MinContentLength, trail |-> 0],
      [lead |-> 0, core |-> MinContentLength - 1, trail |-> 2],
      [lead |-> 1, core |-> MinContentLength + 1, trail |-> 1] }

\* What one call of client.chat.completions.create (lines 60-71) comes to:
\* a response with a content, a response whose content is None, or one of
\* the three exception classes of lines 81, 88 and 95 (an empty `choices`
\* raises IndexError, which is of the last class).
ApiOutcomes ==
    [kind : {"content"}, content : Contents]
    \cup [kind : {"None", "RateLimitError", "APIError", "Exception"},
          content : {NoContent}]

\* A content longer than 100 characters as it stands.
AcceptableUnstripped(o) ==
    /\ o.kind = "content"
    /\ len(o.content) > MinContentLength

\* Line 73: generated_content and len(generated_content.strip()) > 100
Acceptable(o) ==
    /\ o.kind = "content"
    /\ len(o.content) > 0
    /\ len(strip(o.content)) > MinContentLength

\* Lines 79, 86, 93, 100: the triple returned after the last attempt.
LastAttemptTriple(o) ==
    IF o.kind = "RateLimitError"
    THEN <<FALSE, "rate limit reached", "str(e)">>
    ELSE IF o.kind = "APIError"
    THEN <<FALSE, "API error: str(e)", "str(e)">>
    ELSE IF o.kind = "Exception"
    THEN <<FALSE, "unexpected error: str(e)", "str(e)">>
    ELSE <<FALSE, "article too short", None>>

\* Lines 84, 91, 98: the seconds slept before the next attempt.
Backoff(o, attempt) ==
    IF o.kind = "RateLimitError" THEN 2 ^ attempt
    ELSE IF o.kind \in {"APIError", "Exception"} THEN 1
    ELSE 0

\* Lines 30-54: the call, with the prompt built.
generate_article(max_retries) ==
    /\ article.pc = "idle"
    /\ article' = [NoArticleCall EXCEPT !.pc = "loop",
                                        !.max_retries = max_retries]
    /\ UNCHANGED server

\* Lines 56-100: one pass of the loop, the API call and what follows it.
ArticleAttempt ==
    /\ article.pc = "loop"
    /\ article.attempt < article.max_retries
    /\ \E o \in ApiOutcomes :
         LET a == [article EXCEPT !.calls = @ + 1,
                                  !.outcomes = Append(@, o)]
         IN  article' =
                 IF Acceptable(o)
                 THEN [a EXCEPT !.pc = "done",
                                !.ret = <<TRUE, o.content, None>>]
                 ELSE IF article.attempt = article.max_retries - 1
                 THEN [a EXCEPT !.pc = "done", !.ret = LastAttemptTriple(o)]
                 ELSE [a EXCEPT !.attempt = @ + 1,
                                !.slept = @ + Backoff(o, article.attempt)]
    /\ UNCHANGED server

\* Line 102: the loop ended without a return.
ArticleExhausted ==
    /\ article.pc = "loop"
    /\ article.attempt >= article.max_retries
    /\ article' = [article EXCEPT
                       !.pc = "done",
                       !.ret = <<FALSE, "article generation failed", None>>]
    /\ UNCHANGED server

NextArticle ==
    \/ \E n \in 0..MaxRetries : generate_article(n)
    \/ ArticleAttempt
    \/ ArticleExhausted

\* The article generator is used without the backend: nothing of it is
\* imported.
InitArticle ==
    /\ Init
    /\ ~OLLAMA_AVAILABLE
    /\ ~TRANSFORMERS_AVAILABLE

\* One generate_article call.  The function runs on: the API call carries
\* timeout=60 (line 68) and every sleep is finite.
SpecArticle == InitArticle /\ [][NextArticle]_vars /\ WF_vars(NextArticle)

-----------------------------------------------------------------------------
(* Properties.  Those about one request at a time are checked under Spec,  *)
(* those about overlapping requests under SpecConc.                        *)

\* The labels at which a thread is inside ModelManager.switch_backend.
SwitchPcs == {"sw_entry", "sw_tok", "sw_model", "sw_pipe", "sw_set"}

JudgeDone(t) == th[t].op = "judge" /\ th[t].pc = "done"

GenerateReturned(t) ==
    /\ th[t].op = "generate"
    /\ th[t].pc = "done"
    /\ th[t].resp.detail = "returned"

\* C1: every judge request that returns a result returns one whose key set
\* is exactly {liberal, conservative, neutral}, whatever failed in the
\* individual generation calls; a judge request that does not return a
\* result ended before its first generation call.
C1_JudgeResultKeys ==
    \A t \in Threads :
        JudgeDone(t) =>
            \/ /\ th[t].resp.code = 200
               /\ DOMAIN th[t].results = agent_prompts
            \/ /\ th[t].resp.code \in {400, 500}
               /\ DOMAIN th[t].results = {}
               /\ th[t].calls = 0

\* A judge request answered 200 although a backend call of one of its
\* personas raised.
C1_Witness ==
    \E t \in Threads :
        /\ JudgeDone(t)
        /\ th[t].resp.code = 200
        /\ \E a \in DOMAIN th[t].robs : th[t].robs[a].raised

\* C2: when the backend call of a generation raises, the call still
\* returns a result: an error-describing summary with the neutral default
\* score 50.0.
C2_ErrorResultIsNeutralDefault ==
    \A t \in Threads :
        /\ GenerateReturned(t) /\ th[t].obs.raised =>
              /\ IsErrorSummary(th[t].ret.summary)
              /\ th[t].ret.bias_score = FallbackScore
        /\ \A a \in DOMAIN th[t].robs :
              th[t].robs[a].raised =>
                 /\ IsErrorSummary(th[t].results[a].summary)
                 /\ th[t].results[a].bias_score = FallbackScore

\* No thread is inside switch_backend.
SwitchIdle == \A t \in Threads : th[t].pc \notin SwitchPcs

\* The last switch_backend call that returned before request t began was a
\* failed switch to TRANSFORMERS.
AfterFailedTransformers(t) ==
    th[t].prev.kind = TRANSFORMERS /\ ~th[t].prev.ok

SomeOk(as) == \E i \in DOMAIN as : as[i].result = "ok"

\* C3 (as amended): a failed switch to TRANSFORMERS leaves the backend as
\* it was before the call; a generation call made afterwards is served by
\* the prior backend if one was set, and otherwise goes through the default
\* selection: it is served by the backend that selection sets, and returns
\* the no-backend result only when both default attempts failed.
C3_FailedSwitchKeepsBackend ==
    /\ (lastSwitch.kind = TRANSFORMERS /\ ~lastSwitch.ok) =>
           backend = lastSwitch.before
    /\ \A t \in Threads :
           GenerateReturned(t) /\ AfterFailedTransformers(t) =>
               IF th[t].prev.before # None
               THEN /\ th[t].attempts = <<>>
                    /\ th[t].obs.served = th[t].prev.before
               ELSE IF SomeOk(th[t].attempts)
               THEN /\ th[t].obs.served = th[t].attempts[Len(th[t].attempts)].kind
                    /\ th[t].ret # NoBackendDict
               ELSE /\ Len(th[t].attempts) = 2
                    /\ th[t].ret = NoBackendDict

\* A reload of TRANSFORMERS failed while TRANSFORMERS was set, and the next
\* generation call was served by it.
C3_Witness ==
    \E t \in Threads :
        /\ GenerateReturned(t) /\ AfterFailedTransformers(t)
        /\ th[t].prev.before = TRANSFORMERS
        /\ th[t].obs.served = TRANSFORMERS
        /\ backend = TRANSFORMERS

\* C3 as stated: ... and the later generation call fails with the
\* no-backend result if no backend was set before the failed switch.
C3_Original ==
    /\ (lastSwitch.kind = TRANSFORMERS /\ ~lastSwitch.ok) =>
           backend = lastSwitch.before
    /\ \A t \in Threads :
           GenerateReturned(t) /\ AfterFailedTransformers(t) =>
               IF th[t].prev.before # None
               THEN th[t].obs.served = th[t].prev.before
               ELSE th[t].ret = NoBackendDict

\* C4: after a switch to TRANSFORMERS whose load failed (at the tokenizer,
\* the model or the pipeline), the manager holds no handle, neither a part
\* of the failed load nor the pipeline of an earlier load, and a later
\* generation call on TRANSFORMERS returns the not-loaded result at once.
C4_FailedLoadLeavesNoHandle ==
    /\ ( /\ lastSwitch.kind = TRANSFORMERS /\ ~lastSwitch.ok
         /\ TRANSFORMERS_AVAILABLE /\ SwitchIdle ) =>
           /\ pipeline = NoPipeline
           /\ tokenizer = 0
           /\ model = 0
    /\ \A t \in Threads :
           ( /\ GenerateReturned(t) /\ AfterFailedTransformers(t)
             /\ TRANSFORMERS_AVAILABLE
             /\ th[t].obs.served = TRANSFORMERS ) =>
               th[t].ret = NotLoadedDict

\* C5: outside a switch in progress, a pipeline held by the manager
\* implies that the backend is TRANSFORMERS; a successful switch from
\* TRANSFORMERS to OLLAMA leaves no pipeline.
C5_HandleImpliesTransformers ==
    SwitchIdle =>
        /\ pipeline # NoPipeline => backend = TRANSFORMERS
        /\ ( /\ lastSwitch.kind = OLLAMA /\ lastSwitch.ok
             /\ lastSwitch.before = TRANSFORMERS ) => pipeline = NoPipeline

\* Request t began with no backend set and both of its default attempts
\* failed.
NoneSelectable(t) ==
    /\ th[t].backend0 = None
    /\ Len(th[t].attempts) = 2
    /\ \A i \in DOMAIN th[t].attempts : th[t].attempts[i].result = "failed"

\* C6: with no backend set and none selectable, a generation call ends
\* with an error and not with a result dict, and a judge request fails as
\* a whole (500), with no persona result and no backend call made.
C6_NoBackendIsAnError ==
    \A t \in Threads :
        /\ ( /\ th[t].op = "generate" /\ th[t].pc = "done"
             /\ NoneSelectable(t) ) =>
               /\ th[t].resp.detail # "returned"
               /\ th[t].ret = NoDict
        /\ (JudgeDone(t) /\ NoneSelectable(t)) =>
               /\ th[t].resp.code = 500
               /\ DOMAIN th[t].results = {}
               /\ th[t].calls = 0

\* What the default attempts of request t were served by, once one
\* succeeded.
ServedBy(t, kind) ==
    /\ GenerateReturned(t) => th[t].obs.served = kind
    /\ \A a \in DOMAIN th[t].robs : th[t].robs[a].served = kind

\* The order and outcome of the default attempts of request t, the first
\* made with the name `first`.
DefaultSelection(t, first) ==
    LET as == th[t].attempts IN
    as # <<>> =>
        /\ th[t].backend0 = None
        /\ Len(as) <= 2
        /\ as[1].kind = OLLAMA
        /\ ResolveOllama(as[1].name) = first
        /\ Len(as) = 2 => /\ as[1].result = "failed"
                          /\ as[2].kind = TRANSFORMERS
                          /\ as[2].name = None
        /\ \A i \in DOMAIN as :
               as[i].result = "ok" =>
                   /\ i = Len(as)
                   /\ th[t].pc \notin SwitchPcs => backend = as[i].kind
                   /\ ServedBy(t, as[i].kind)

\* C7 (as amended): a generation call made with no backend set first
\* attempts OLLAMA with the model name its caller passed ("llama3.2" when
\* none was passed; the selection that judge makes itself always uses
\* "llama3.2"); it attempts TRANSFORMERS with no name only if the first
\* attempt failed; when an attempt succeeds, the backend is the kind of
\* that attempt and the call is dispatched to it.
C7_DefaultSelectionOrder ==
    \A t \in Threads :
        DefaultSelection(t, IF th[t].op = "generate"
                            THEN ResolveOllama(th[t].modelArg)
                            ELSE DefaultOllamaModel)

\* A generation call whose caller named another model: the first attempt
\* failed on that name, the second succeeded and served the call.
C7_Witness ==
    \E t \in Threads :
        /\ GenerateReturned(t)
        /\ th[t].modelArg \notin {None, DefaultOllamaModel}
        /\ Len(th[t].attempts) = 2
        /\ th[t].attempts[1].name = th[t].modelArg
        /\ th[t].attempts[2].result = "ok"
        /\ th[t].obs.served = TRANSFORMERS

\* C7 as stated: the first attempt is OLLAMA with "llama3.2", whatever
\* model name the caller passed.
C7_Original ==
    \A t \in Threads : DefaultSelection(t, DefaultOllamaModel)

\* The switch that judge request t made for its backend field returned
\* False, or the field named no backend at all.
OverrideFailed(t) ==
    /\ th[t].op = "judge"
    /\ \/ /\ th[t].sw.ret = "j_override_ret"
          /\ th[t].pc \notin SwitchPcs
          /\ ~th[t].sw.ok
       \/ /\ th[t].backendArg \notin ModelBackend \cup {None, ""}
          /\ th[t].pc # "j_override"

\* C8: when a judge request names a backend and the switch to it fails
\* (unknown value, kind unavailable, model not found, load failed), the
\* request ends at once with a 400, no generation call is made for any
\* persona, and the backend is the one set before the request.
C8_OverrideFailureIsHard ==
    \A t \in Threads :
        OverrideFailed(t) =>
            /\ th[t].pc = "done"
            /\ th[t].resp.code = 400
            /\ th[t].calls = 0
            /\ DOMAIN th[t].results = {}
            /\ th[t].attempts = <<>>
            /\ backend = th[t].backend0

\* A judge request that named TRANSFORMERS while OLLAMA was set, and whose
\* load failed.
C8_Witness ==
    \E t \in Threads :
        /\ OverrideFailed(t)
        /\ th[t].backendArg = TRANSFORMERS
        /\ TRANSFORMERS_AVAILABLE
        /\ th[t].backend0 = OLLAMA
        /\ th[t].resp.code = 400

\* Judge request t returned and all its generation calls went to OLLAMA.
JudgedByOllama(t) ==
    /\ JudgeDone(t)
    /\ th[t].resp.code = 200
    /\ \A a \in DOMAIN th[t].robs : th[t].robs[a].served = OLLAMA

\* C9: in a judge request served by OLLAMA, for every set of personas
\* whose backend calls fail, each of them gets an error summary with score
\* 50.0, every other persona is still called and gets the text and score
\* of its own calls, and the request returns.
C9_FailureStaysWithItsPersona ==
    \A t \in Threads :
        /\ ( /\ th[t].op = "judge" /\ th[t].pc = "j_loop"
             /\ th[t].i > JudgeLoopLen ) => DOMAIN th[t].results = agent_prompts
        /\ JudgedByOllama(t) =>
             \A a \in agent_prompts :
                 IF th[t].robs[a].raised
                 THEN /\ IsErrorSummary(th[t].results[a].summary)
                      /\ th[t].results[a].bias_score = FallbackScore
                 ELSE th[t].results[a].summary = <<"response", a>>

\* A thread is between the first write of a load and the write of
\* self.backend that ends the switch.
MidSwitch(u) == th[u].pc \in {"sw_model", "sw_pipe", "sw_set"}

\* The labels whose step reads or writes a field of the manager.
ManagerPcs ==
    {"j_auto", "j_loop", "g_entry", "g_dispatch", "gt_call", "s_ret", "st"}
        \cup SwitchPcs

\* No judge request reads or writes the manager between the writes of
\* another judge request's switch.
NoInterleaving ==
    \A u, t \in Threads :
        ( /\ u # t
          /\ th[u].op = "judge" /\ MidSwitch(u)
          /\ th[t].op = "judge" /\ th[t].pc \in ManagerPcs ) =>
            th'[t].pc = th[t].pc

\* Once all requests have completed, some judge request having returned,
\* the backend is one of the two kinds.
SettledValid ==
    ( /\ \A t \in Threads : th[t].pc \in {"idle", "done"}
      /\ \E t \in Threads : JudgeDone(t) /\ th[t].resp.code = 200 ) =>
          backend \in ModelBackend

\* C10: for judge requests that run at the same time, with any mix of
\* backend fields, no request's step falls between the writes of another
\* request's switch, and once all have completed the backend is one of the
\* two kinds, never None.
C10_SwitchWritesAreSerialized ==
    [][NoInterleaving]_vars /\ []SettledValid

\* The labels whose step belongs to a generation call and reads the
\* manager: the two reads of the backend and the run of the pipeline.
GenerationReads(t) ==
    \/ th[t].pc \in {"g_entry", "g_dispatch", "gt_call"}
    \/ th[t].pc = "j_loop" /\ th[t].i <= JudgeLoopLen

\* A generation call of t that finds a switch of another thread between
\* its writes does not go on: it stays where it is, or it is refused.
GenerationWaits ==
    \A u, t \in Threads :
        (u # t /\ MidSwitch(u) /\ GenerationReads(t)) =>
            \/ th'[t].pc = th[t].pc
            \/ th'[t].resp.detail = "BackendBusy"

\* Every pipeline run used the tokenizer and model the manager held.
ReadsWholeState ==
    \A t \in Threads :
        /\ th[t].obs.coherent
        /\ \A a \in DOMAIN th[t].robs : th[t].robs[a].coherent

\* C11: a generation call that runs while a switch is in flight waits for
\* the switch to complete or is refused as busy; it never reads the
\* manager with only a part of the switch's writes (tokenizer, model,
\* pipeline, backend) applied.
C11_GenerateNeverSeesPartialSwitch ==
    [][GenerationWaits]_vars /\ []ReadsWholeState

\* C12: every judge request eventually returns, also when a backend call
\* of one persona is never answered: the call is bounded by a timeout,
\* after which that persona gets a degraded result and the request goes on
\* to the remaining personas.
C12_JudgeEventuallyReturns ==
    \A t \in Threads : (th[t].op = "judge") ~> JudgeDone(t)

\* A direct generation call returned the result of an answered score call
\* on the OLLAMA path.
Scored(t) ==
    /\ GenerateReturned(t)
    /\ th[t].obs.served = OLLAMA
    /\ ~th[t].obs.raised
    /\ ~IsErrorSummary(th[t].ret.summary)

\* The integer tokens of a text as the specification counts them: the
\* maximal runs of digits, whatever stands next to them.
RunStart(s, i) == DigitAt(s, i) /\ ~DigitAt(s, i - 1)

RunEnd(s, i) ==
    CHOOSE j \in i..Len(s) :
        /\ \A k \in i..j : DigitAt(s, k)
        /\ ~DigitAt(s, j + 1)

InRange(s, i) ==
    \/ RunEnd(s, i) - i + 1 <= 2
    \/ SubSeq(s, i, RunEnd(s, i)) = <<"1", "0", "0">>

\* The first standalone integer token in 0..100, in tenths; 50.0 without.
StandaloneScore(s) ==
    LET starts == {i \in 1..Len(s) : RunStart(s, i) /\ InRange(s, i)}
    IN  IF starts = {} THEN FallbackScore
        ELSE LET i == CHOOSE k \in starts : \A j \in starts : k <= j
             IN  10 * DecimalValue(SubSeq(s, i, RunEnd(s, i)))

\* C13: the score extracted from a response text is its first standalone
\* integer token in 0..100 (one or two digits, or exactly 100), and 50.0
\* when there is none; a number directly followed by Japanese text
\* ("72" then U+70B9 U+3067 U+3059) gives 72.0, a text without digits
\* 50.0, and "100%" then U+78BA U+5B9F gives 100.0.
C13_ExtractScoreFirstToken ==
    \A t \in Threads :
        (Scored(t) /\ th[t].obs.readable) =>
            /\ th[t].ret.bias_score = StandaloneScore(th[t].obs.text)
            /\ th[t].obs.text = <<"7", "2", "U+70B9", "U+3067", "U+3059">>
                   => th[t].ret.bias_score = 720
            /\ th[t].obs.text = <<"n", "o">>
                   => th[t].ret.bias_score = FallbackScore
            /\ th[t].obs.text = <<"1", "0", "0", "%", "U+78BA", "U+5B9F">>
                   => th[t].ret.bias_score = 1000

\* C14: the extraction of the score is total and bounded: for every
\* response text (the empty text, runs of more than three digits, a
\* response that cannot be read) the call raises nothing and the score is
\* in 0..100, 50.0 for an unreadable response, and the same text always
\* gives the same score.
C14_ExtractScoreTotalBounded ==
    \A t \in Threads :
        /\ ( /\ th[t].op = "generate" /\ th[t].pc = "done"
             /\ th[t].calls = 2 ) =>
               /\ th[t].resp.detail = "returned"
               /\ th[t].obs.served = OLLAMA
        /\ Scored(t) =>
               /\ th[t].ret.bias_score \in 0..1000
               /\ th[t].obs.readable =>
                      th[t].ret.bias_score = extractScore(th[t].obs.text)
               /\ ~th[t].obs.readable =>
                      th[t].ret.bias_score = FallbackScore

\* A score response of four digits was scored with the fallback.
C14_Witness ==
    \E t \in Threads :
        /\ Scored(t)
        /\ th[t].obs.readable
        /\ th[t].obs.text = <<"1", "0", "0", "0">>
        /\ th[t].ret.bias_score = FallbackScore

\* Thread t is back from a switch_backend(OLLAMA, ...) call whose record
\* it still holds.
BackFromOllamaSwitch(t) ==
    /\ th[t].sw.kind = OLLAMA
    /\ th[t].pc \in {"s_ret", "done"}

\* The step of switch_backend(OLLAMA, ...) leaves the three handle fields
\* alone and writes the backend with OLLAMA or not at all.
OllamaSwitchFrame ==
    \A t \in Threads :
        (th[t].pc = "sw_entry" /\ th[t].sw.kind = OLLAMA
                               /\ th'[t].pc # "sw_entry") =>
            /\ pipeline' = pipeline
            /\ tokenizer' = tokenizer
            /\ model' = model
            /\ backend' \in {OLLAMA, backend}

\* The outcome of switch_backend(OLLAMA, m), m resolved to "llama3.2" when
\* absent, against the list the server returned.
OllamaSwitchOutcome ==
    \A t \in Threads :
        BackFromOllamaSwitch(t) =>
            /\ th[t].sw.ok <=> /\ OLLAMA_AVAILABLE
                               /\ ResolveOllama(th[t].sw.name) \in th[t].sw.listed
            /\ th[t].sw.ok => lastSwitch.ok /\ backend = OLLAMA
            /\ ~th[t].sw.ok => backend = th[t].sw.before

\* C15: a switch to OLLAMA with name m succeeds exactly when the client is
\* available and the resolved name (m, or "llama3.2" without m) is in the
\* list of the server's models; on success the backend is OLLAMA and the
\* call sets no handle; on failure backend and handle are unchanged.
C15_OllamaSwitchOutcome ==
    []OllamaSwitchOutcome /\ [][OllamaSwitchFrame]_vars

\* A switch to OLLAMA without a name succeeded while a pipeline was held.
C15_Witness ==
    \E t \in Threads :
        /\ BackFromOllamaSwitch(t)
        /\ th[t].sw.ok
        /\ th[t].sw.name = None
        /\ th[t].sw.before = TRANSFORMERS
        /\ pipeline # NoPipeline
        /\ backend = OLLAMA

\* C16: the backend and the model name in the metadata of a judge answer
\* are the backend and the model name that served the generation calls of
\* that request, also when the request named no model and a default one
\* was used.
C16_MetaNamesWhatServed ==
    \A t \in Threads :
        (JudgeDone(t) /\ th[t].resp.code = 200) =>
            \A a \in DOMAIN th[t].robs :
                /\ th[t].robs[a].served = th[t].resp.backend
                /\ th[t].robs[a].served = OLLAMA =>
                       th[t].robs[a].model = th[t].resp.model_name

\* C17: a generation call for a persona outside liberal, conservative,
\* neutral ends with the unknown-persona error (the KeyError of the prompt
\* lookup) in every state of the manager, returns no result dict for it,
\* and makes no backend call.
C17_UnknownPersonaFails ==
    \A t \in Threads :
        ( /\ th[t].op = "generate" /\ th[t].pc = "done"
          /\ th[t].agent \notin agent_prompts ) =>
            /\ th[t].resp.detail = "KeyError"
            /\ th[t].ret = NoDict
            /\ th[t].calls = 0

StatusDone(t) == th[t].op = "status" /\ th[t].pc = "done"

\* The status step, which lists the models and checks one, writes no field
\* of the manager.
StatusFrame ==
    \A t \in Threads :
        (th[t].pc = "st" /\ th'[t].pc = "done") =>
            /\ backend' = backend
            /\ pipeline' = pipeline
            /\ tokenizer' = tokenizer
            /\ model' = model

\* What the listing and the check give back to the status handler and to
\* switch_backend.
ListingOutcome ==
    \A t \in Threads :
        /\ StatusDone(t) =>
              /\ th[t].resp.code = 200
              /\ th[t].status.available_ollama_models =
                     IF OLLAMA_AVAILABLE /\ th[t].status.answered[1]
                     THEN installed ELSE {}
              /\ th[t].status.ollama_available =
                     /\ OLLAMA_AVAILABLE /\ th[t].status.answered[2]
                     /\ DefaultOllamaModel \in installed
        /\ (BackFromOllamaSwitch(t) /\ th[t].sw.listed = {}) => ~th[t].sw.ok

\* C18: the listing of the server's models never raises to its caller: on
\* a failure of the communication it gives the empty list, the check of a
\* name is then false for every name, and neither changes the manager.
C18_ListingNeverRaises ==
    []ListingOutcome /\ [][StatusFrame]_vars

\* A status answer given while the server, which has the default model,
\* answered neither the listing nor the check.
C18_Witness ==
    \E t \in Threads :
        /\ StatusDone(t)
        /\ DefaultOllamaModel \in installed
        /\ th[t].status.answered = <<FALSE, FALSE>>
        /\ th[t].status.available_ollama_models = {}
        /\ ~th[t].status.ollama_available
        /\ th[t].resp.code = 200

SwitchDone(t) == th[t].op = "switch" /\ th[t].pc = "done"

\* C19: a switch request whose backend value is outside the enumeration
\* is answered with the invalid-backend error, another error than the
\* switch-failed one given when a valid kind cannot be switched to; in
\* both cases the backend is unchanged, and on success the answer's
\* current backend is the requested kind.
C19_SwitchEndpointAnswers ==
    \A t \in Threads :
        SwitchDone(t) =>
            IF th[t].backendArg \notin ModelBackend
            THEN /\ th[t].resp.code = 400
                 /\ th[t].resp.detail = "invalid backend"
                 /\ th[t].sw = NoSwitch
                 /\ backend = th[t].backend0
            ELSE /\ th[t].sw.kind = th[t].backendArg
                 /\ lastSwitch.kind = th[t].backendArg
                 /\ lastSwitch.ok = th[t].sw.ok
                 /\ IF th[t].sw.ok
                    THEN /\ th[t].resp.code = 200
                         /\ th[t].resp.backend = th[t].backendArg
                         /\ backend = th[t].backendArg
                    ELSE /\ th[t].resp.code = 400
                         /\ th[t].resp.detail = "switch failed"
                         /\ backend = th[t].backend0

\* A switch request for TRANSFORMERS failed in the load while OLLAMA was
\* set.
C19_Witness ==
    \E t \in Threads :
        /\ SwitchDone(t)
        /\ th[t].backendArg = TRANSFORMERS
        /\ TRANSFORMERS_AVAILABLE
        /\ th[t].backend0 = OLLAMA
        /\ th[t].resp.detail = "switch failed"
        /\ backend = OLLAMA

\* The prompt as the specification composes it: the framing, the
\* persona's instruction, the article, a blank line between each two.
ComposedPrompt(agent, text) ==
    <<SystemFraming, BlankLine, agent, BlankLine, text>>

\* C20: the prompt of a generation call is a function of persona and
\* article alone, and it is the fixed framing, then the persona's
\* instruction, then the article, with a blank line between each two
\* consecutive parts, on the OLLAMA path and on the TRANSFORMERS path.
C20_PromptComposition ==
    \A t \in Threads :
        /\ (GenerateReturned(t) /\ th[t].obs.full_prompt # <<>>) =>
               th[t].obs.full_prompt = ComposedPrompt(th[t].agent, th[t].prompt)
        /\ \A a \in DOMAIN th[t].robs :
               th[t].robs[a].full_prompt # <<>> =>
                   th[t].robs[a].full_prompt = ComposedPrompt(a, th[t].prompt)

\* C21: on either backend a successful generation call makes exactly two
\* backend calls, the narrative call and after its return the score call,
\* and its score is the extraction from the score call's response; a judge
\* request whose calls all succeed makes 6 backend calls.
C21_TwoCallsPerPersona ==
    \A t \in Threads :
        /\ ( /\ GenerateReturned(t)
             /\ th[t].obs.served \in ModelBackend
             /\ ~IsErrorSummary(th[t].ret.summary) ) =>
               /\ th[t].calls = 2
               /\ th[t].obs.readable =>
                      th[t].ret.bias_score = extractScore(th[t].obs.text)
        /\ ( /\ JudgeDone(t) /\ th[t].resp.code = 200
             /\ \A a \in DOMAIN th[t].results :
                    ~IsErrorSummary(th[t].results[a].summary) ) =>
               th[t].calls = 6

\* The text holds no integer token in 0..100.
NoScoreToken(s) ==
    \A i \in 1..Len(s) : ~(RunStart(s, i) /\ InRange(s, i))

\* C22: when both backend calls of a persona succeed and the score
\* response holds no parsable value in 0..100, the call returns the
\* narrative of the first call as summary, as it is and without an error
\* marker, with score 50.0, and reports no error.
C22_FallbackKeepsNarrative ==
    \A t \in Threads :
        ( /\ th[t].op = "generate" /\ th[t].pc = "done"
          /\ th[t].obs.served = OLLAMA
          /\ th[t].calls = 2 /\ ~th[t].obs.raised
          /\ ~th[t].obs.readable \/ NoScoreToken(th[t].obs.text) ) =>
            /\ th[t].resp.detail = "returned"
            /\ th[t].ret = NarrativeDict(th[t].agent, FallbackScore)
            /\ ~IsErrorSummary(th[t].ret.summary)

\* A score response without a digit was answered with the narrative and
\* 50.0.
C22_Witness ==
    \E t \in Threads :
        /\ Scored(t)
        /\ th[t].calls = 2
        /\ th[t].obs.readable
        /\ th[t].obs.text = <<"n", "o">>
        /\ th[t].ret.summary = <<"response", th[t].agent>>
        /\ th[t].ret.bias_score = FallbackScore

LeavesNoneBySuccess ==
    (backend = None /\ backend' # None) =>
        \E t \in Threads :
            /\ th[t].pc \in SwitchPcs
            /\ th'[t].pc \notin SwitchPcs
            /\ backend' = th[t].sw.kind
            /\ lastSwitch'.ok

\* Requests that failed on a manager without backend left it without, and
\* a status answer given without backend says so.
StillNoneAfterFailures ==
    \A t \in Threads :
        /\ ( /\ JudgeDone(t) \/ SwitchDone(t)
             /\ th[t].resp.code \in {400, 500}
             /\ th[t].backend0 = None ) => backend = None
        /\ (StatusDone(t) /\ backend = None) => th[t].resp.backend = None
        /\ StatusDone(t) => backend = th[t].backend0

\* C24: the backend stays None from the start through every sequence of
\* failed switches, failed judge requests and status requests; a status
\* request answers current_backend null in those states and never changes
\* the manager.
C24_NoneUntilFirstSuccess ==
    /\ []StillNoneAfterFailures
    /\ [][LeavesNoneBySuccess /\ StatusFrame]_vars

\* A status answer that says null after a load of TRANSFORMERS failed
\* half-way.
C24_Witness ==
    \E t \in Threads :
        /\ StatusDone(t)
        /\ th[t].resp.backend = None
        /\ backend = None
        /\ th[t].prev.kind = TRANSFORMERS
        /\ ~th[t].prev.ok
        /\ tokenizer # 0

\* No step takes the backend from a kind to None.
NeverBackToNone == backend # None => backend' # None

\* A switch that began with a backend set left one set.
SetBeforeStaysSet == lastSwitch.before # None => backend # None

\* C25: once a switch has succeeded the backend is never None again,
\* whatever switches (successful or failed), generation calls, judge
\* requests and status requests follow.
C25_NeverNoneAgain ==
    []SetBeforeStaysSet /\ [][NeverBackToNone]_vars

\* A switch to TRANSFORMERS failed in its load while OLLAMA was set, and
\* OLLAMA is still set.
C25_Witness ==
    /\ lastSwitch.kind = TRANSFORMERS
    /\ ~lastSwitch.ok
    /\ lastSwitch.before = OLLAMA
    /\ TRANSFORMERS_AVAILABLE
    /\ backend = OLLAMA

\* C26: in every reachable state, backend TRANSFORMERS implies that a
\* pipeline is held, so the not-loaded result of the TRANSFORMERS path is
\* never returned to a call that went through the manager's dispatch.
C26_TransformersHasPipeline ==
    /\ backend = TRANSFORMERS => pipeline # NoPipeline
    /\ \A t \in Threads :
           /\ th[t].ret # NotLoadedDict
           /\ \A a \in DOMAIN th[t].results : th[t].results[a] # NotLoadedDict

\* After a reload of TRANSFORMERS failed, a generation call was served by
\* the pipeline of the earlier load.
C26_Witness ==
    \E t \in Threads :
        /\ GenerateReturned(t) /\ AfterFailedTransformers(t)
        /\ th[t].obs.served = TRANSFORMERS
        /\ th[t].ret.summary = <<"response", th[t].agent>>
        /\ pipeline # NoPipeline

\* C27: every generation call on OLLAMA uses a model name that the most
\* recent successful switch to OLLAMA checked as installed: after a
\* successful switch to OLLAMA with name m, a generation call or a judge
\* request that passes no name runs on m, and a judge request that selects
\* the default backend itself generates with the model it checked.
C27_GeneratesWithCheckedModel ==
    \A t \in Threads :
        /\ ( /\ GenerateReturned(t)
             /\ th[t].prev.kind = OLLAMA /\ th[t].prev.ok
             /\ th[t].modelArg = None
             /\ th[t].obs.served = OLLAMA ) =>
               th[t].obs.model = th[t].prev.name
        /\ \A a \in DOMAIN th[t].robs :
               th[t].robs[a].served = OLLAMA =>
                   /\ ( /\ th[t].prev.kind = OLLAMA /\ th[t].prev.ok
                        /\ th[t].backendArg \in {None, ""}
                        /\ th[t].modelArg = None ) =>
                          th[t].robs[a].model = th[t].prev.name
                   /\ ( /\ th[t].attempts # <<>>
                        /\ th[t].attempts[1].result = "ok" ) =>
                          th[t].robs[a].model =
                              ResolveOllama(th[t].attempts[1].name)

\* C28: whenever no switch is in progress, the tokenizer, model and
\* pipeline of the manager are all unset or all the product of one and the
\* same load, after any sequence and any interleaving of successful and
\* failed switches to TRANSFORMERS.
C28_HandlesOfOneLoad ==
    SwitchIdle =>
        \/ /\ tokenizer = 0
           /\ model = 0
           /\ pipeline = NoPipeline
        \/ /\ tokenizer # 0
           /\ model = tokenizer
           /\ pipeline = [by |-> tokenizer, model |-> model,
                          tokenizer |-> tokenizer]

\* C29: when judge requests with different backend overrides run at the
\* same time, the three persona results of one request are all produced by
\* the same backend kind, and that kind is the one the metadata of the
\* request's response reports.
C29_OneBackendPerRequest ==
    \A t \in Threads :
        (JudgeDone(t) /\ th[t].resp.code = 200) =>
            \A a \in DOMAIN th[t].robs :
                /\ th[t].robs[a].served = th[t].resp.backend
                /\ \A b \in DOMAIN th[t].robs :
                       th[t].robs[a].served = th[t].robs[b].served

\* The messages of the failure triples.
FailureMessages ==
    {"article too short", "rate limit reached", "API error: str(e)",
     "unexpected error: str(e)", "article generation failed"}

\* The content of a response is longer than 100 characters, as it stands
\* and with the whitespace around it removed.
LongerThan100(o) ==
    /\ o.kind = "content"
    /\ o.content.lead + o.content.core + o.content.trail > MinContentLength

LongerThan100Stripped(o) ==
    /\ o.kind = "content"
    /\ o.content.core > MinContentLength

\* What a generate_article call has done so far, for a reading `accepts`
\* of "the content is long enough": no more than max_retries API calls;
\* an attempt with such a content is the last one and is returned as
\* success; a call that returned without one made every attempt and
\* returned a failure triple.
ArticleCallIsSound(accepts(_)) ==
    LET n == Len(article.outcomes) IN
    /\ article.calls = n
    /\ n <= article.max_retries
    /\ \A i \in 1..n :
           accepts(article.outcomes[i]) =>
               /\ i = n
               /\ article.pc = "done"
               /\ article.ret[1]
               /\ article.ret[2] = article.outcomes[i].content
               /\ article.ret[3] = None
    /\ ( /\ article.pc = "done"
         /\ \A i \in 1..n : ~accepts(article.outcomes[i]) ) =>
           /\ n = article.max_retries
           /\ ~article.ret[1]
           /\ article.ret[2] \in FailureMessages

\* C30 (as amended): generate_article terminates for every max_retries >= 0
\* and every sequence of API outcomes; it issues at most max_retries API
\* calls, returns success at the first attempt whose content, with the
\* whitespace around it removed, is longer than 100 characters, without
\* issuing further calls, and otherwise returns a failure triple after the
\* last attempt.
C30_ArticleRetriesTerminate ==
    /\ []ArticleCallIsSound(LongerThan100Stripped)
    /\ (article.pc = "loop") ~> (article.pc = "done")

\* A call with max_retries = 3 that returned success at its third attempt,
\* after a rate-limit error and a content of more than 100 characters of
\* which 100 are left when stripped.
C30_Witness ==
    /\ article.pc = "done"
    /\ article.max_retries = 3
    /\ article.calls = 3
    /\ article.ret[1]
    /\ article.outcomes[1].kind = "RateLimitError"
    /\ article.outcomes[2].kind = "content"
    /\ len(article.outcomes[2].content) > MinContentLength
    /\ article.slept = 1

\* C30 as stated: success at the first attempt whose content is longer
\* than 100 characters.
C30_Original == ArticleCallIsSound(LongerThan100)

=============================================================================
